---------------------------- MODULE Spec2Model ----------------------------
(***************************************************************************)
(* A model of stalk-web's marker update and reconciliation engine:         *)
(*   - the marker service (src/src/services/markerService.ts, the current  *)
(*     definitions, lines 130-399): the store, the poll adapter, the live  *)
(*     (WebSocket) adapter;                                                *)
(*   - the update mode controller and the reconciliation pass of           *)
(*     src/src/components/MapComponent.vue.                                *)
(*                                                                         *)
(* JavaScript is single threaded: every action below is one macrotask (an  *)
(* event handler, a timer callback, a network completion) together with    *)
(* the microtasks and the Vue watcher flush it triggers.  A service        *)
(* function is an operator from a service state record to a service state  *)
(* record, so that a handler is the composition of the functions it calls. *)
(***************************************************************************)
EXTENDS Integers, Sequences, FiniteSets, TLC

VARIABLES
  \* ---- markerService.ts: reactive refs and module-level variables
  markers,                \* ref<MarkerData[]>
  isLoading,              \* ref(false)
  error,                  \* ref<string | null>
  currentName,            \* ref<string | null>
  freeRoamingMode,        \* ref(false)
  currentZoomLevel,       \* ref<ZoomLevel>(ZoomLevel.Medium)
  updateFrequency,        \* ref(5000)
  updateMode,             \* ref<UpdateMode>(UpdateMode.Live)
  ws,                     \* let ws: WebSocket | null
  wsReconnectTimer,       \* let wsReconnectTimer
  wsIntentionallyClosed,  \* let wsIntentionallyClosed
  fetchInterval,          \* let fetchInterval
  \* ---- the JavaScript runtime: what is armed, open or in flight
  intervals,              \* armed setInterval timers: id -> [kind, name, period]
  timeouts,               \* pending setTimeout (reconnect) timers: id -> [name]
  sockets,                \* WebSocket objects not yet closed: id -> [state, name]
  fetches,                \* fetch() requests in flight: id -> [kind, name, arm, intervalMs, late]
  \* ---- MapComponent.vue
  phase,                  \* "init" (not set up), "mounted", "unmounted"
  propsName,              \* props.name
  map,                    \* let map: L.Map | null (TRUE when it exists)
  markerByName,           \* Map<string, {marker, name, timestamp}>: name -> [h, pos, ts]
  layer,                  \* the handles held by markersLayer
  openPopups,             \* the handles whose popup is open
  autoEnforcedFreeRoaming,\* ref(false)
  view,                   \* the last view operation: <<operation, points, zoom or padding>>
  markerInstances,        \* let markerInstances: the set of [h, name, timestamp]
  popupUpdateTimer,       \* let popupUpdateTimer: [delay, due] of the timer it refers to
  refreshTimers,          \* the pending setTimeout timers of the refresh callback
  nowTick,                \* ref(Date.now())
  popupWrites,            \* the handles whose popup content the last handler wrote
  now,                    \* Date.now(), in milliseconds
  \* ---- history variables (not program state)
  lastEvent,              \* the last handler that ran, with the service calls it made
  started,                \* the last start operation called: <<kind, name>>
  pollStopped,            \* stopFetching was called and no poll start since
  passes,                 \* the kinds of the last two reconciliation passes
  userFreeRoam,           \* the free-roam value the user last chose
  transitions,            \* the controller transitions so far (mount, name, mode, frequency, unmount)
  limits                  \* the bounds and the recording in force in this behaviour (constant)

svcVars == <<markers, isLoading, error, currentName, updateFrequency, updateMode, ws,
             wsReconnectTimer, wsIntentionallyClosed, fetchInterval, intervals,
             timeouts, sockets, fetches>>
cmpVars == <<phase, propsName, map, markerByName, layer, openPopups,
             autoEnforcedFreeRoaming, freeRoamingMode, currentZoomLevel, view>>
histVars == <<lastEvent, started, pollStopped, passes, userFreeRoam, transitions, limits>>
schedVars == <<markerInstances, popupUpdateTimer, refreshTimers, nowTick, popupWrites,
              now>>
vars == <<svcVars, cmpVars, histVars, schedVars>>

---------------------------------------------------------------------------
\* Bounds of the model

\* at most this many controller transitions in a behaviour of Spec, the mount included
MaxTransitions == 3
\* at most this many controller transitions in a behaviour of SpecCtl
MaxCtlTransitions == 4
\* at most this many requests in flight, timers armed and timers pending in SpecCtl
MaxCtlAlive == 1
\* at most this many fetch() requests in flight at once
MaxFetches == 2
\* at most this many interval timers armed at once
MaxIntervals == 2
\* at most this many WebSocket objects not yet closed at once
MaxSockets == 2
\* at most this many reconnect timers pending at once
MaxTimeouts == 2
\* at most this many records in a snapshot of the reconciliation model
MaxMarkers == 2
\* positions (latitude/longitude pairs) and timestamps are drawn from 1..MaxPos
MaxPos == 2

---------------------------------------------------------------------------
\* Values

Names == {"a", "b"}
\* props.name undefined / currentName null: both are falsy in the code's tests
NoName == ""
NoId == 0
NoError == <<>>

Poll == "poll"
Live == "live"

DefaultFrequency == 5000
\* the <option> values of the frequency dropdown the model draws from
Frequencies == {1000, DefaultFrequency}
ReconnectDelay == 1000

\* new Error(`API request failed with status ${response.status}`)
ApiError(status) == <<"API request failed with status", status>>
\* new Error(`No user named "${name}" known...`)
NoUserError(name) == <<"No user named", name, "known...">>

\* fetch() rejected or response.json() rejected: no status, err.message is the error
NoResponse == 0
FetchRejected == <<"fetch rejected">>

Statuses == {200, 404, 500, NoResponse}

\* A MarkerData record: the position stands for (latitude, longitude)
Rec(n, p, t) == [name |-> n, pos |-> p, ts |-> t]

\* What response.json() returns: a JSON array of records, or one JSON object
JsonArray(q) == [isArray |-> TRUE, items |-> q]
JsonObject(r) == [isArray |-> FALSE, items |-> <<r>>]
\* a response that is not ok or a fetch that was rejected: no body is read
NoBody == JsonArray(<<>>)
\* the object of a body that is a single object
ObjectOf(data) == data.items[1]

Remove(f, k) == [x \in DOMAIN f \ {k} |-> f[x]]
Put(f, k, v) == [x \in DOMAIN f \cup {k} |-> IF x = k THEN v ELSE f[x]]
\* the id the runtime gives a new timer, socket or request: the least one not in use
FreshId(f) == CHOOSE i \in 1..(Cardinality(DOMAIN f) + 1) : i \notin DOMAIN f

---------------------------------------------------------------------------
\* The service state as one record; calls is the log of the service
\* functions the running handler has called so far, input what the event
\* that runs the handler delivered (the kind, status and name of a response,
\* with the body when the status is 200; the record of a message; the feed of
\* a socket or of a reconnect timer).

S == [markers |-> markers, isLoading |-> isLoading, error |-> error,
      currentName |-> currentName, updateFrequency |-> updateFrequency,
      updateMode |-> updateMode, ws |-> ws, wsReconnectTimer |-> wsReconnectTimer,
      wsIntentionallyClosed |-> wsIntentionallyClosed,
      fetchInterval |-> fetchInterval, intervals |-> intervals,
      timeouts |-> timeouts, sockets |-> sockets, fetches |-> fetches,
      calls |-> <<>>, input |-> <<>>]

Called(s, op, arg) == [s EXCEPT !.calls = Append(@, <<op, arg>>)]

---------------------------------------------------------------------------
\* markerService.ts: the store and the live adapter

setUpdateMode(s, mode) == [s EXCEPT !.updateMode = mode]

\* faulty variant: All: the record of the name is taken out and the new one appended
applyMarkerUpdateMovingLast(ms, cur, m) ==
  IF cur # NoName
    THEN <<m>>
    ELSE LET IsOther(x) == x.name # m.name
         IN Append(SelectSeq(ms, IsOther), m)

\* ByName: the record replaces the set; All: replace in place by name, or append
applyMarkerUpdate(ms, cur, m) ==
  IF cur # NoName
    THEN <<m>>
    ELSE IF \E i \in 1..Len(ms) : ms[i].name = m.name
           THEN LET idx == CHOOSE i \in 1..Len(ms) :
                             /\ ms[i].name = m.name
                             /\ \A j \in 1..(i - 1) : ms[j].name # m.name
                IN [ms EXCEPT ![idx] = m]
           ELSE Append(ms, m)

\* ws.close(): the socket is closing; its close event is delivered later
closeSocket(socks, id) ==
  IF id \in DOMAIN socks THEN [socks EXCEPT ![id].state = "closing"] ELSE socks

connectWs(s, name) ==
  LET s1 == IF s.ws # NoId
              THEN [s EXCEPT !.wsIntentionallyClosed = TRUE,
                             !.sockets = closeSocket(@, s.ws),
                             !.ws = NoId]
              ELSE s
      s2 == IF s1.wsReconnectTimer # NoId
              THEN [s1 EXCEPT !.timeouts = Remove(@, s1.wsReconnectTimer),
                              !.wsReconnectTimer = NoId]
              ELSE s1
      id == FreshId(s2.sockets)
  IN [s2 EXCEPT !.isLoading = TRUE,
                !.error = NoError,
                !.wsIntentionallyClosed = FALSE,
                !.sockets = Put(@, id, [state |-> "connecting", name |-> name]),
                !.ws = id]

startLive(s) ==
  connectWs([Called(s, "startLive", NoName) EXCEPT !.currentName = NoName], NoName)

startLiveByName(s, name) ==
  connectWs([Called(s, "startLiveByName", name) EXCEPT !.currentName = name], name)

\* faulty variant: the closure is marked as intended even when there is no socket
stopLiveAlwaysMarks(s) ==
  LET s0 == Called(s, "stopLive", NoName)
      s1 == IF s0.wsReconnectTimer # NoId
              THEN [s0 EXCEPT !.timeouts = Remove(@, s0.wsReconnectTimer),
                              !.wsReconnectTimer = NoId]
              ELSE s0
  IN [s1 EXCEPT !.wsIntentionallyClosed = TRUE,
                !.sockets = closeSocket(@, s1.ws),
                !.ws = NoId]

stopLive(s) ==
  LET s0 == Called(s, "stopLive", NoName)
      s1 == IF s0.wsReconnectTimer # NoId
              THEN [s0 EXCEPT !.timeouts = Remove(@, s0.wsReconnectTimer),
                              !.wsReconnectTimer = NoId]
              ELSE s0
  IN IF s1.ws # NoId
       THEN [s1 EXCEPT !.wsIntentionallyClosed = TRUE,
                       !.sockets = closeSocket(@, s1.ws),
                       !.ws = NoId]
       ELSE s1

\* ws.onopen
onopen(s, id) ==
  [s EXCEPT !.sockets[id].state = "open", !.isLoading = FALSE]

\* ws.onmessage with a payload that parses to the record m
onmessage(s, m) ==
  [s EXCEPT !.markers = applyMarkerUpdate(s.markers, s.currentName, m)]

\* ws.onclose of socket id, whose closure holds name
onclose(s, id) ==
  LET s1 == [s EXCEPT !.sockets = Remove(@, id), !.ws = NoId]
      t == FreshId(s1.timeouts)
  IN IF ~s1.wsIntentionallyClosed /\ s1.updateMode = Live
       THEN [s1 EXCEPT !.timeouts = Put(@, t, [name |-> s.sockets[id].name]),
                       !.wsReconnectTimer = t]
       ELSE s1

\* the reconnect timer's callback: () => connectWs(name)
reconnect(s, t) ==
  connectWs([s EXCEPT !.timeouts = Remove(@, t)], s.timeouts[t].name)

---------------------------------------------------------------------------
\* markerService.ts: the poll adapter

\* the requests in flight when a further request is dispatched are older than
\* it (the order of the requests is recorded where limits.order says so)
Demote(fs) ==
  [id \in DOMAIN fs |->
     IF limits.order /\ fs[id].order = "newest"
       THEN [fs[id] EXCEPT !.order = "older"] ELSE fs[id]]

\* the requests in flight when the response of the newest request is stored
\* have been overtaken by it
Overtake(fs, f, status) ==
  IF limits.order /\ status = 200 /\ f.order = "newest"
    THEN [id \in DOMAIN fs |-> [fs[id] EXCEPT !.order = "overtaken"]]
    ELSE fs

\* fetchMarkerData up to its first await: the request is dispatched.
\* arm: the caller is a start operation that arms the interval when it resumes.
fetchMarkerData(s, arm, intervalMs) ==
  [s EXCEPT !.isLoading = TRUE,
            !.error = NoError,
            !.fetches = Put(Demote(@), FreshId(s.fetches),
                            [kind |-> "all", name |-> NoName, arm |-> arm,
                             intervalMs |-> intervalMs, late |-> FALSE,
                             order |-> "newest"])]

\* fetchMarkerByName up to its first await
fetchMarkerByName(s, name, arm, intervalMs) ==
  [s EXCEPT !.isLoading = TRUE,
            !.error = NoError,
            !.currentName = name,
            !.fetches = Put(Demote(@), FreshId(s.fetches),
                            [kind |-> "byName", name |-> name, arm |-> arm,
                             intervalMs |-> intervalMs, late |-> FALSE,
                             order |-> "newest"])]

\* faulty variant: a failed all-markers fetch clears the marker set
fetchMarkerDataDoneClearing(s, status, data) ==
  [s EXCEPT !.markers = IF status = 200 THEN data.items ELSE <<>>,
            !.error = IF status = 200 THEN @
                      ELSE IF status = NoResponse THEN FetchRejected
                      ELSE ApiError(status),
            !.isLoading = FALSE]

\* fetchMarkerData from the response on: try / catch / finally;
\* markers.value = data, the endpoint answering with an array
fetchMarkerDataDone(s, status, data) ==
  LET s1 == IF status = 200
              THEN [s EXCEPT !.markers = data.items]
              ELSE [s EXCEPT !.error = IF status = NoResponse THEN FetchRejected
                                                               ELSE ApiError(status)]
  IN [s1 EXCEPT !.isLoading = FALSE]

\* Array.isArray(data) ? data : [data]
wrapInArray(data) == IF data.isArray THEN data.items ELSE <<ObjectOf(data)>>

\* faulty variant: a named lookup without the test of status 404
fetchMarkerByNameDoneNo404(s, name, status, data) ==
  [s EXCEPT !.markers = IF status = 200 THEN wrapInArray(data) ELSE <<>>,
            !.error = IF status = 200 THEN @
                      ELSE IF status = NoResponse THEN FetchRejected
                      ELSE ApiError(status),
            !.isLoading = FALSE]

\* fetchMarkerByName from the response on: try / catch / finally
fetchMarkerByNameDone(s, name, status, data) ==
  LET s1 == IF status = 200
              THEN [s EXCEPT !.markers = wrapInArray(data)]
              ELSE [s EXCEPT !.error = IF status = NoResponse THEN FetchRejected
                                       ELSE IF status = 404 THEN NoUserError(name)
                                       ELSE ApiError(status),
                             !.markers = <<>>]
  IN [s1 EXCEPT !.isLoading = FALSE]

stopFetching(s) ==
  LET s0 == Called(s, "stopFetching", NoName)
  IN IF s0.fetchInterval # NoId
       THEN [s0 EXCEPT !.intervals = Remove(@, s0.fetchInterval),
                       !.fetchInterval = NoId]
       ELSE s0

\* startFetching up to its await (intervalMs = 0: no argument given)
startFetching(s, intervalMs) ==
  fetchMarkerData(stopFetching(Called(s, "startFetching", NoName)), TRUE, intervalMs)

\* startFetchingByName up to its await
startFetchingByName(s, name, intervalMs) ==
  fetchMarkerByName(stopFetching(Called(s, "startFetchingByName", name)),
                    name, TRUE, intervalMs)

\* faulty variant: a start operation that gives up when its initial fetch failed
armIntervalUnlessFailed(s, f) ==
  IF s.error # NoError THEN s
  ELSE LET interval == IF f.intervalMs # 0 THEN f.intervalMs ELSE s.updateFrequency
           t == FreshId(s.intervals)
       IN [s EXCEPT !.intervals = Put(@, t, [kind |-> f.kind, name |-> f.name,
                                             period |-> interval]),
                    !.fetchInterval = t]

\* a start operation resumed after its initial fetch f: setInterval
armInterval(s, f) ==
  LET interval == IF f.intervalMs # 0 THEN f.intervalMs ELSE s.updateFrequency
      t == FreshId(s.intervals)
  IN [s EXCEPT !.intervals = Put(@, t, [kind |-> f.kind, name |-> f.name,
                                        period |-> interval]),
               !.fetchInterval = t]

\* the interval timer's callback
tick(s, t) ==
  IF s.intervals[t].kind = "all"
    THEN fetchMarkerData(s, FALSE, 0)
    ELSE fetchMarkerByName(s, s.intervals[t].name, FALSE, 0)

\* setUpdateFrequency up to its await
setUpdateFrequency(s, frequencyMs) ==
  LET s1 == [Called(s, "setUpdateFrequency", NoName)
               EXCEPT !.updateFrequency = frequencyMs]
  IN IF s1.fetchInterval # NoId
       THEN IF s1.currentName # NoName
              THEN startFetchingByName(s1, s1.currentName, 0)
              ELSE startFetching(s1, 0)
       ELSE s1

stopUpdates(s) == stopLive(stopFetching(Called(s, "stopUpdates", NoName)))

---------------------------------------------------------------------------
\* MapComponent.vue: the update mode controller

\* watch(updateMode, () => ...)
watchUpdateMode(s) ==
  LET s1 == stopUpdates(s)
  IN IF s1.currentName # NoName
       THEN IF s1.updateMode = Live
              THEN startLiveByName(s1, s1.currentName)
              ELSE startFetchingByName(s1, s1.currentName, 0)
       ELSE IF s1.updateMode = Live
              THEN startLive(s1)
              ELSE startFetching(s1, 0)

\* faulty variant: the name watcher choosing the variant by currentName, as the mode watcher does
watchNameByCurrentName(s, newName) == watchUpdateMode(s)

\* watch(() => props.name, (newName) => ...)
watchName(s, newName) ==
  LET s1 == stopUpdates(s)
  IN IF newName # NoName
       THEN IF s1.updateMode = Live
              THEN startLiveByName(s1, newName)
              ELSE startFetchingByName(s1, newName, 0)
       ELSE IF s1.updateMode = Live
              THEN startLive(s1)
              ELSE startFetching(s1, 0)

---------------------------------------------------------------------------
\* MapComponent.vue: the adaptive refresh scheduler

Minute == 60000
FastDelay == 1000
MinDelay == 500
\* the time of the initial state, a minute boundary
Epoch == 10 * Minute
\* parseISO(...).getTime() of a timestamp that is not a date: NaN
InvalidTime == 0
\* popupUpdateTimer = null
NoTimer == [delay |-> 0, due |-> 0]

\* faulty variant: the delay to the minute boundary without the floor
computeNextDelayMsNoFloor(t, insts) ==
  IF \E it \in insts : it.timestamp # InvalidTime /\ t - it.timestamp < Minute
    THEN FastDelay
    ELSE Minute - (t % Minute)

\* computeNextDelayMs with Date.now() = t; NaN < 60_000 is false
computeNextDelayMs(t, insts) ==
  IF \E it \in insts : it.timestamp # InvalidTime /\ t - it.timestamp < Minute
    THEN FastDelay
    ELSE LET msToNextMinute == Minute - (t % Minute)
         IN IF MinDelay > msToNextMinute THEN MinDelay ELSE msToNextMinute

\* scheduleAdaptiveTick: the timer setTimeout arms for the computed delay
scheduleAdaptiveTick(t, insts) ==
  LET delay == computeNextDelayMs(t, insts)
  IN [delay |-> delay, due |-> t + delay]

\* q without its element i
RemoveAt(q, i) == SubSeq(q, 1, i - 1) \o SubSeq(q, i + 1, Len(q))

\* faulty variant: the timer is left pending
clearTimeoutLeavesPending(q, tm) == q

\* clearTimeout(tm) on the pending timers q: nothing happens when tm has fired
clearTimeout(q, tm) ==
  IF \E i \in 1..Len(q) : q[i] = tm
    THEN RemoveAt(q, CHOOSE i \in 1..Len(q) : q[i] = tm)
    ELSE q

\* scheduleAdaptiveTick on the pending timers q and the value of popupUpdateTimer:
\* if (popupUpdateTimer) clearTimeout(popupUpdateTimer); popupUpdateTimer = setTimeout(...)
armRefresh(q, handle, t, insts) ==
  LET new == scheduleAdaptiveTick(t, insts)
  IN [timers |-> Append(clearTimeout(q, handle), new), handle |-> new]

---------------------------------------------------------------------------
\* MapComponent.vue: the reconciliation pass

\* [62, 15], the center the map is created with
DefaultCenter == <<62, 15>>

\* enum ZoomLevel
Close == 18
Medium == 15
Far == 10
VeryFar == 6
CountryFar == 4
\* the <option> values of the zoom dropdown the model draws from
ZoomOptions == {Medium, Far}
\* { padding: [50, 50] }
FitPadding == 50

\* The component state the pass reads and writes, as one record
\* setPopupContent / bindPopup called on no handle: by the upsert loop, by
\* refreshRelativeTimesAndPopups
NoWrites == [upsert |-> {}, refresh |-> {}]

\* refreshRelativeTimesAndPopups: the handles whose popup content is set
refreshRelativeTimesAndPopups(insts) == {it.h : it \in insts}

Cmp == [markers |-> markers, freeRoamingMode |-> freeRoamingMode,
        autoEnforcedFreeRoaming |-> autoEnforcedFreeRoaming,
        markerByName |-> markerByName, layer |-> layer,
        openPopups |-> openPopups, view |-> view, map |-> map,
        markerInstances |-> markerInstances,
        currentZoomLevel |-> currentZoomLevel, popupWrites |-> NoWrites]

Handles(mb) == {mb[n].h : n \in DOMAIN mb}
MarkerNames(ms) == {ms[i].name : i \in 1..Len(ms)}
\* L.marker(...): a new handle, the least one the layer does not hold
FreshHandle(ly) == CHOOSE h \in 1..(Cardinality(ly) + 1) : h \notin ly

\* the branch for markers.value.length === 0
clearAll(c) ==
  LET c1 == [c EXCEPT !.layer = @ \ Handles(c.markerByName),
                      !.openPopups = @ \ Handles(c.markerByName),
                      !.markerByName = <<>>,
                      !.markerInstances = {}]
      c2 == IF ~c1.freeRoamingMode
              THEN [c1 EXCEPT !.freeRoamingMode = TRUE,
                              !.autoEnforcedFreeRoaming = TRUE]
              ELSE c1
  IN IF c2.map /\ ~c2.freeRoamingMode
       THEN [c2 EXCEPT !.view = <<"setView", {DefaultCenter}, CountryFar>>]
       ELSE c2

\* faulty variant: the enforced flag tested against free roaming being off
liftEnforcedInverted(c) ==
  IF c.autoEnforcedFreeRoaming /\ ~c.freeRoamingMode
    THEN [c EXCEPT !.freeRoamingMode = FALSE, !.autoEnforcedFreeRoaming = FALSE]
    ELSE c

\* if (autoEnforcedFreeRoaming.value && freeRoamingMode.value)
\* faulty variant: free roaming is turned off again, the enforced flag left set
liftEnforcedKeepsFlag(c) ==
  IF c.autoEnforcedFreeRoaming /\ c.freeRoamingMode
    THEN [c EXCEPT !.freeRoamingMode = FALSE]
    ELSE c

liftEnforced(c) ==
  IF c.autoEnforcedFreeRoaming /\ c.freeRoamingMode
    THEN [c EXCEPT !.freeRoamingMode = FALSE, !.autoEnforcedFreeRoaming = FALSE]
    ELSE c

\* faulty variant: the handle of an existing name is removed and a new one created
upsertRecreate(c, md) ==
  LET h == FreshHandle(c.layer)
      old == IF md.name \in DOMAIN c.markerByName
               THEN {c.markerByName[md.name].h} ELSE {}
  IN [c EXCEPT !.layer = (@ \ old) \cup {h},
               !.openPopups = @ \ old,
               !.markerByName = Put(@, md.name, [h |-> h, pos |-> md.pos, ts |-> md.ts])]

\* faulty variant: a new handle is created for every record, the old one left on the layer
upsertAlwaysCreates(c, md) ==
  LET h == FreshHandle(c.layer)
  IN [c EXCEPT !.layer = @ \cup {h},
               !.markerByName = Put(@, md.name, [h |-> h, pos |-> md.pos, ts |-> md.ts])]

\* the body of the loop over markers.value: move the handle of the name, or create one
upsert(c, md) ==
  IF md.name \in DOMAIN c.markerByName
    THEN LET h == c.markerByName[md.name].h
         IN [c EXCEPT !.markerByName[md.name].pos = md.pos,
                      !.markerByName[md.name].ts = md.ts,
                      !.popupWrites.upsert = IF h \in c.openPopups THEN @ \cup {h} ELSE @]
    ELSE LET h == FreshHandle(c.layer)
         IN [c EXCEPT !.layer = @ \cup {h},
                      !.markerByName = Put(@, md.name,
                                           [h |-> h, pos |-> md.pos, ts |-> md.ts])]

RECURSIVE upsertFrom(_, _)
upsertFrom(c, i) ==
  IF i > Len(c.markers) THEN c ELSE upsertFrom(upsert(c, c.markers[i]), i + 1)

\* faulty variant: the names are deleted from the map, their handles left on the layer
removeDisappearedFromMapOnly(c) ==
  LET gone == DOMAIN c.markerByName \ MarkerNames(c.markers)
  IN [c EXCEPT !.markerByName = [n \in DOMAIN c.markerByName \ gone |-> c.markerByName[n]]]

\* the loop that removes the handles whose name is not incoming
removeDisappeared(c) ==
  LET gone == DOMAIN c.markerByName \ MarkerNames(c.markers)
      hs == {c.markerByName[n].h : n \in gone}
  IN [c EXCEPT !.layer = @ \ hs,
               !.openPopups = @ \ hs,
               !.markerByName = [n \in DOMAIN c.markerByName \ gone |-> c.markerByName[n]]]

\* markerInstances = Array.from(markerByName.values()).map(...)
rebuildInstances(c) ==
  [c EXCEPT !.markerInstances =
     {[h |-> c.markerByName[n].h, name |-> n, timestamp |-> c.markerByName[n].ts] :
        n \in DOMAIN c.markerByName}]

\* L.latLng(latitude, longitude) of a record at position p
LatLng(p) == <<p, p>>
\* L.latLngBounds([]) extended by the position of every record
BoundsOf(ms) == {LatLng(ms[i].pos) : i \in 1..Len(ms)}

\* faulty variant: the view is fitted to the bounds for a single marker too
fitViewBoundsOnly(c) ==
  IF c.freeRoamingMode THEN c
  ELSE [c EXCEPT !.view = <<"fitBounds", BoundsOf(c.markers), FitPadding>>]

\* faulty variant: the view is adjusted whatever the free roaming mode
fitViewAlways(c) ==
  IF Len(c.markers) = 1
    THEN [c EXCEPT !.view = <<"setView", {LatLng(c.markers[1].pos)}, c.currentZoomLevel>>]
    ELSE [c EXCEPT !.view = <<"fitBounds", BoundsOf(c.markers), FitPadding>>]

\* the view is adjusted when free roaming is off
fitView(c) ==
  IF c.freeRoamingMode THEN c
  ELSE IF Len(c.markers) = 1
         THEN [c EXCEPT !.view = <<"setView", {LatLng(c.markers[1].pos)}, c.currentZoomLevel>>]
         ELSE [c EXCEPT !.view = <<"fitBounds", BoundsOf(c.markers), FitPadding>>]

\* faulty variant: the refresh that ends the pass writes the open popups only
refreshAfterPassOpenOnly(c) ==
  [c EXCEPT !.popupWrites.refresh =
              refreshRelativeTimesAndPopups(c.markerInstances) \cap c.openPopups]

\* the refresh that ends the pass
refreshAfterPass(c) ==
  [c EXCEPT !.popupWrites.refresh = refreshRelativeTimesAndPopups(c.markerInstances)]

updateMapMarkers(c) ==
  IF ~c.map THEN c
  ELSE IF Len(c.markers) = 0 THEN refreshAfterPass(clearAll(c))
  ELSE refreshAfterPass(
         fitView(rebuildInstances(removeDisappeared(upsertFrom(liftEnforced(c), 1)))))

---------------------------------------------------------------------------
\* What the server may send

Positions == 1..MaxPos
\* the records the server may hold for name n (position and timestamp move together)
ServerRecords(n) == {Rec(n, p, p) : p \in Positions}
AllServerRecords == UNION {ServerRecords(n) : n \in Names}
\* the bodies of GET <endpoint>: arrays with at most one record per name
PollSnapshots ==
  {<<>>} \cup {<<r>> : r \in AllServerRecords}
         \cup {<<r1, r2>> : r1 \in ServerRecords("a"), r2 \in ServerRecords("b")}
\* the bodies of GET <endpoint>: the arrays of PollSnapshots
PollBodies == {JsonArray(q) : q \in PollSnapshots}
\* the bodies of GET <endpoint>/<name>: one record, as an object or as an array of one
NamedBodies(n) == {JsonObject(r) : r \in ServerRecords(n)}
                    \cup {JsonArray(<<r>>) : r \in ServerRecords(n)}
\* the messages of a push feed: the feed of name n carries the records of n
FeedRecords(n) == IF n = NoName THEN AllServerRecords ELSE ServerRecords(n)

\* the sequences of at most k elements of set
RECURSIVE SeqsUpTo(_, _)
SeqsUpTo(set, k) ==
  IF k = 0 THEN {<<>>}
  ELSE LET shorter == SeqsUpTo(set, k - 1)
       IN shorter \cup {Append(q, x) : q \in {r \in shorter : Len(r) = k - 1}, x \in set}

\* a latitude or longitude that is missing or not a number
NoPos == 0
\* what JSON of the shape of MarkerData may hold: the client reads the body
\* with response.json() and the message with JSON.parse, and checks neither
\* the coordinates nor the names
RawRecords == AllServerRecords \cup {Rec(n, NoPos, 1) : n \in Names}
RawBodies == {JsonArray(q) : q \in SeqsUpTo(RawRecords, MaxMarkers)}
               \cup {JsonObject(r) : r \in RawRecords}

---------------------------------------------------------------------------
\* History derived from the calls of a handler

StartOps == {"startLive", "startLiveByName", "startFetching", "startFetchingByName"}
PollStartOps == {"startFetching", "startFetchingByName"}

LastIndex(calls, ops) ==
  IF \E i \in 1..Len(calls) : calls[i][1] \in ops
    THEN CHOOSE i \in 1..Len(calls) :
           /\ calls[i][1] \in ops
           /\ \A j \in (i + 1)..Len(calls) : calls[j][1] \notin ops
    ELSE 0

\* the last start operation of the handler, as <<kind, name>>
StartedBy(calls, old) ==
  LET i == LastIndex(calls, StartOps)
  IN IF i = 0 THEN old
     ELSE <<IF calls[i][1] \in PollStartOps THEN Poll ELSE Live, calls[i][2]>>

\* a stopFetching that is not the one a poll start begins with leaves polling stopped
PollStoppedBy(calls, old) ==
  LET iStart == LastIndex(calls, PollStartOps)
      iStop == LastIndex(calls, {"stopFetching"})
  IN IF iStart > 0 /\ iStop <= iStart + 1 THEN FALSE
     ELSE IF iStop > 0 THEN TRUE
     ELSE old

\* the requests dispatched before a stopUpdates are late from then on
MarkLate(calls, new) ==
  IF \E i \in 1..Len(calls) : calls[i][1] = "stopUpdates"
    THEN [id \in DOMAIN new |->
            IF id \in DOMAIN fetches THEN [new[id] EXCEPT !.late = TRUE] ELSE new[id]]
    ELSE new

\* the handlers of the controller
Transitions == {"name", "mode", "frequency", "unmount"}

\* the bounds of Spec
FullLimits == [transitions |-> MaxTransitions, fetches |-> MaxFetches,
               intervals |-> MaxIntervals, sockets |-> MaxSockets,
               timeouts |-> MaxTimeouts, raw |-> FALSE, order |-> FALSE]
\* the bounds of SpecCtl: longer runs of transitions, the user acting when at most
\* one request is in flight and no timer has leaked
CtlLimits == [transitions |-> MaxCtlTransitions, fetches |-> MaxCtlAlive,
              intervals |-> MaxCtlAlive, sockets |-> MaxSockets,
              timeouts |-> MaxCtlAlive, raw |-> FALSE, order |-> FALSE]
\* the bounds of SpecWire: any JSON of the shape of MarkerData on the wire
WireLimits == [transitions |-> MaxTransitions, fetches |-> MaxCtlAlive,
               intervals |-> MaxCtlAlive, sockets |-> MaxCtlAlive,
               timeouts |-> MaxCtlAlive, raw |-> TRUE, order |-> FALSE]

\* the bounds of SpecLive: a start adds one socket, a close turns a socket into
\* at most one timer and a timer that fires into one socket, so that no more
\* sockets and timers exist than transitions were made and no bound delays a timer
LiveLimits == [transitions |-> MaxTransitions, fetches |-> MaxCtlAlive,
               intervals |-> MaxCtlAlive, sockets |-> MaxTransitions,
               timeouts |-> MaxTransitions, raw |-> FALSE, order |-> FALSE]

\* the bounds of SpecFreq: two starts may overlap and a fourth transition follows
FreqLimits == [transitions |-> MaxCtlTransitions, fetches |-> MaxFetches,
               intervals |-> MaxIntervals, sockets |-> MaxCtlAlive,
               timeouts |-> MaxCtlAlive, raw |-> FALSE, order |-> FALSE]

\* the bounds of SpecOrder: two requests of one timer in flight, their order recorded
OrderLimits == [transitions |-> MaxTransitions, fetches |-> MaxFetches,
                intervals |-> MaxCtlAlive, sockets |-> MaxCtlAlive,
                timeouts |-> MaxCtlAlive, raw |-> FALSE, order |-> TRUE]

\* the bodies a response may carry and the records a message may carry
Bodies == IF limits.raw THEN RawBodies
          ELSE PollBodies \cup UNION {NamedBodies(n) : n \in Names}
Messages == IF limits.raw THEN RawRecords ELSE AllServerRecords

WithinBounds(s, type) ==
  /\ Cardinality(DOMAIN s.fetches) <= limits.fetches
  /\ Cardinality(DOMAIN s.intervals) <= limits.intervals
  /\ Cardinality(DOMAIN s.sockets) <= limits.sockets
  /\ Cardinality(DOMAIN s.timeouts) <= limits.timeouts
  /\ type \in Transitions => transitions < limits.transitions

\* the handler ends: its service state becomes the state
Commit(s, type, late) ==
  /\ WithinBounds(s, type)
  /\ markers' = s.markers
  /\ isLoading' = s.isLoading
  /\ error' = s.error
  /\ currentName' = s.currentName
  /\ updateFrequency' = s.updateFrequency
  /\ updateMode' = s.updateMode
  /\ ws' = s.ws
  /\ wsReconnectTimer' = s.wsReconnectTimer
  /\ wsIntentionallyClosed' = s.wsIntentionallyClosed
  /\ fetchInterval' = s.fetchInterval
  /\ intervals' = s.intervals
  /\ timeouts' = s.timeouts
  /\ sockets' = s.sockets
  /\ fetches' = MarkLate(s.calls, s.fetches)
  /\ lastEvent' = [type |-> type, calls |-> s.calls, late |-> late, input |-> s.input]
  /\ started' = StartedBy(s.calls, started)
  /\ pollStopped' = PollStoppedBy(s.calls, pollStopped)
  /\ transitions' = IF type \in Transitions THEN transitions + 1 ELSE transitions
  /\ UNCHANGED limits

reconVars == <<markerByName, layer, openPopups, autoEnforcedFreeRoaming,
               freeRoamingMode, currentZoomLevel, view, passes, userFreeRoam,
               markerInstances, nowTick, popupWrites, now>>

---------------------------------------------------------------------------
\* The initial state: the module's initial values, the component not set up

InitState ==
  /\ markers = <<>>
  /\ isLoading = FALSE
  /\ error = NoError
  /\ currentName = NoName
  /\ freeRoamingMode = FALSE
  /\ updateFrequency = DefaultFrequency
  /\ updateMode = Live
  /\ ws = NoId
  /\ wsReconnectTimer = NoId
  /\ wsIntentionallyClosed = FALSE
  /\ fetchInterval = NoId
  /\ intervals = <<>>
  /\ timeouts = <<>>
  /\ sockets = <<>>
  /\ fetches = <<>>
  /\ phase = "init"
  /\ propsName = NoName
  /\ map = FALSE
  /\ markerByName = <<>>
  /\ layer = {}
  /\ openPopups = {}
  /\ autoEnforcedFreeRoaming = FALSE
  /\ currentZoomLevel = Medium
  /\ view = <<"setView", {DefaultCenter}, CountryFar>>
  /\ lastEvent = [type |-> "init", calls |-> <<>>, late |-> FALSE, input |-> <<>>]
  /\ started = <<"none", NoName>>
  /\ pollStopped = FALSE
  /\ passes = <<>>
  /\ userFreeRoam = FALSE
  /\ transitions = 0
  /\ markerInstances = {}
  /\ popupUpdateTimer = NoTimer
  /\ refreshTimers = <<>>
  /\ popupWrites = NoWrites

Init == InitState /\ limits = FullLimits /\ now = Epoch /\ nowTick = Epoch

InitCtl == InitState /\ limits = CtlLimits /\ now = Epoch /\ nowTick = Epoch

InitWire == InitState /\ limits = WireLimits /\ now = Epoch /\ nowTick = Epoch

InitFreq == InitState /\ limits = FreqLimits /\ now = Epoch /\ nowTick = Epoch

InitOrder == InitState /\ limits = OrderLimits /\ now = Epoch /\ nowTick = Epoch

InitLive == InitState /\ limits = LiveLimits /\ now = Epoch /\ nowTick = Epoch

---------------------------------------------------------------------------
\* The controller's handlers

\* setup and onMounted: the name watcher runs at once (immediate: true),
\* then the map is created and the refresh timer armed
Mount(n) ==
  /\ phase = "init"
  /\ phase' = "mounted"
  /\ propsName' = n
  /\ map' = TRUE
  /\ Commit(watchName(S, n), "name", FALSE)
  /\ IF popupUpdateTimer = NoTimer
       THEN LET a == armRefresh(refreshTimers, popupUpdateTimer, now, markerInstances)
            IN popupUpdateTimer' = a.handle /\ refreshTimers' = a.timers
       ELSE UNCHANGED <<popupUpdateTimer, refreshTimers>>
  /\ UNCHANGED reconVars

\* the route changes props.name
NameChange(n) ==
  /\ phase = "mounted"
  /\ n # propsName
  /\ propsName' = n
  /\ Commit(watchName(S, n), "name", FALSE)
  /\ UNCHANGED <<phase, map, reconVars, popupUpdateTimer, refreshTimers>>

\* a click on the LIVE button: setUpdateMode, then the updateMode watcher
ToggleMode ==
  /\ phase = "mounted"
  /\ Commit(watchUpdateMode(setUpdateMode(S, IF updateMode = Live THEN Poll ELSE Live)),
            "mode", FALSE)
  /\ UNCHANGED <<phase, propsName, map, reconVars, popupUpdateTimer, refreshTimers>>

\* a change of the frequency dropdown, which is rendered when the mode is not Live
SetFrequency(f) ==
  /\ phase = "mounted"
  /\ updateMode # Live
  /\ Commit(setUpdateFrequency([S EXCEPT !.input = <<"frequency", f>>], f),
            "frequency", FALSE)
  /\ UNCHANGED <<phase, propsName, map, reconVars, popupUpdateTimer, refreshTimers>>

\* onUnmounted: clearTimeout(popupUpdateTimer); stopUpdates, map.remove()
Unmount ==
  /\ phase = "mounted"
  /\ phase' = "unmounted"
  /\ map' = FALSE
  /\ Commit(stopUpdates(S), "unmount", FALSE)
  /\ refreshTimers' = clearTimeout(refreshTimers, popupUpdateTimer)
  /\ popupUpdateTimer' = NoTimer
  /\ UNCHANGED <<propsName, reconVars>>

---------------------------------------------------------------------------
\* The runtime's events

\* the response of request id arrives; a start operation then arms its interval
FetchDone(id, status, data) ==
  /\ id \in DOMAIN fetches
  /\ LET f == fetches[id]
         s0 == [S EXCEPT !.fetches = Overtake(Remove(@, id), f, status),
                         !.input = IF status = 200 THEN <<f.kind, status, f.name, data>>
                                   ELSE <<f.kind, status, f.name>>]
         s1 == IF f.kind = "all"
                 THEN fetchMarkerDataDone(s0, status, data)
                 ELSE fetchMarkerByNameDone(s0, f.name, status, data)
         s2 == IF f.arm THEN armInterval(s1, f) ELSE s1
     IN /\ IF status # 200 THEN data = NoBody
           ELSE IF limits.raw THEN (f.kind = "all" => data.isArray)
           ELSE IF f.kind = "all" THEN data \in PollBodies
           ELSE data \in NamedBodies(f.name)
        /\ Commit(s2, "fetchDone", f.late)
  /\ UNCHANGED <<phase, propsName, map, reconVars, popupUpdateTimer, refreshTimers>>

\* interval timer t fires
Tick(t) ==
  /\ t \in DOMAIN intervals
  /\ Commit(tick(S, t), "tick", FALSE)
  /\ UNCHANGED <<phase, propsName, map, reconVars, popupUpdateTimer, refreshTimers>>

WsOpen(id) ==
  /\ id \in DOMAIN sockets
  /\ sockets[id].state = "connecting"
  /\ Commit(onopen(S, id), "wsOpen", FALSE)
  /\ UNCHANGED <<phase, propsName, map, reconVars, popupUpdateTimer, refreshTimers>>

WsMessage(id, m) ==
  /\ id \in DOMAIN sockets
  /\ sockets[id].state = "open"
  /\ m \in (IF limits.raw THEN RawRecords ELSE FeedRecords(sockets[id].name))
  /\ Commit(onmessage([S EXCEPT !.input = <<m>>], m), "wsMessage", FALSE)
  /\ UNCHANGED <<phase, propsName, map, reconVars, popupUpdateTimer, refreshTimers>>

\* the close event of socket id: the server or the network closed it, the
\* connection failed, or the client's close() has completed
WsClose(id) ==
  /\ id \in DOMAIN sockets
  /\ Commit(onclose([S EXCEPT !.input = <<"feed", sockets[id].name>>], id),
            IF sockets[id].state = "closing" THEN "wsCloseIntended" ELSE "wsClose",
            FALSE)
  /\ UNCHANGED <<phase, propsName, map, reconVars, popupUpdateTimer, refreshTimers>>

\* reconnect timer t fires
ReconnectFire(t) ==
  /\ t \in DOMAIN timeouts
  /\ Commit(reconnect([S EXCEPT !.input = <<"feed", timeouts[t].name>>], t), "reconnect", FALSE)
  /\ UNCHANGED <<phase, propsName, map, reconVars, popupUpdateTimer, refreshTimers>>

---------------------------------------------------------------------------
\* The reconciliation model: the store changes the adapters make (a response
\* body stored, a live record merged, the set cleared by a failed lookup), each
\* followed by the markers watcher, and the user's actions on the map.

\* the records a store change may carry
Records == AllServerRecords
Snapshots == SeqsUpTo(Records, MaxMarkers)

PassKind(c) == IF Len(c.markers) = 0 THEN "empty" ELSE "nonempty"
LastTwo(q) == IF Len(q) > 2 THEN SubSeq(q, Len(q) - 1, Len(q)) ELSE q

\* a store change and the pass it triggers; the pass returns at once without a map
StoreWrite(ms, type, input) ==
  /\ LET c == updateMapMarkers([Cmp EXCEPT !.markers = ms])
     IN /\ markers' = c.markers
        /\ freeRoamingMode' = c.freeRoamingMode
        /\ autoEnforcedFreeRoaming' = c.autoEnforcedFreeRoaming
        /\ markerByName' = c.markerByName
        /\ layer' = c.layer
        /\ openPopups' = c.openPopups
        /\ view' = c.view
        /\ markerInstances' = c.markerInstances
        /\ popupWrites' = c.popupWrites
        /\ nowTick' = IF c.map THEN now ELSE nowTick
        /\ passes' = IF c.map THEN LastTwo(Append(passes, PassKind(c))) ELSE passes
  /\ lastEvent' = [type |-> type, calls |-> <<>>, late |-> FALSE, input |-> input]
  /\ UNCHANGED <<isLoading, error, currentName, updateFrequency, updateMode, ws,
                 wsReconnectTimer, wsIntentionallyClosed, fetchInterval, intervals,
                 timeouts, sockets, fetches>>
  /\ UNCHANGED <<phase, propsName, map, started, pollStopped, userFreeRoam,
                 transitions, limits, popupUpdateTimer, refreshTimers, now,
                 currentZoomLevel>>

\* watch(markers, () => updateMapMarkers(), { deep: true }) after a store change
StoreChanged(ms, type, input) == phase = "mounted" /\ StoreWrite(ms, type, input)

\* markers.value = data
StoreSnapshot(data) ==
  /\ Len(data) <= MaxMarkers
  /\ StoreChanged(data, "storeSnapshot", <<>>)

\* applyMarkerUpdate(data)
StoreUpsert(m) ==
  /\ Len(applyMarkerUpdate(markers, currentName, m)) <= MaxMarkers
  /\ StoreChanged(applyMarkerUpdate(markers, currentName, m), "storeUpsert", <<m>>)

\* markers.value = [] after a failed lookup
StoreClear == StoreChanged(<<>>, "storeClear", <<>>)

\* faulty variant: the free roaming button enabled while there are no markers
ToggleFreeRoamWhileEmpty ==
  /\ phase = "mounted"
  /\ freeRoamingMode' = ~freeRoamingMode
  /\ userFreeRoam' = ~freeRoamingMode
  /\ popupWrites' = NoWrites
  /\ lastEvent' = [type |-> "toggleFreeRoam", calls |-> <<>>, late |-> FALSE,
                  input |-> <<>>]
  /\ UNCHANGED <<svcVars, phase, propsName, map, markerByName, layer, openPopups,
                 autoEnforcedFreeRoaming, view, started, pollStopped, passes,
                 transitions, limits, markerInstances, popupUpdateTimer,
                 refreshTimers, nowTick, now, currentZoomLevel>>

\* a click on the free roaming button, which is disabled while there are no markers
ToggleFreeRoam ==
  /\ phase = "mounted"
  /\ Len(markers) # 0
  /\ freeRoamingMode' = ~freeRoamingMode
  /\ userFreeRoam' = ~freeRoamingMode
  /\ popupWrites' = NoWrites
  /\ lastEvent' = [type |-> "toggleFreeRoam", calls |-> <<>>, late |-> FALSE,
                  input |-> <<>>]
  /\ UNCHANGED <<svcVars, phase, propsName, map, markerByName, layer, openPopups,
                 autoEnforcedFreeRoaming, view, started, pollStopped, passes,
                 transitions, limits, markerInstances, popupUpdateTimer,
                 refreshTimers, nowTick, now, currentZoomLevel>>

\* a click on the marker h opens its popup and closes the one that was open
OpenPopup(h) ==
  /\ phase = "mounted"
  /\ h \in layer
  /\ h \notin openPopups
  /\ openPopups' = {h}
  /\ popupWrites' = NoWrites
  /\ lastEvent' = [type |-> "popup", calls |-> <<>>, late |-> FALSE,
                  input |-> <<>>]
  /\ UNCHANGED <<svcVars, phase, propsName, map, markerByName, layer, freeRoamingMode,
                 autoEnforcedFreeRoaming, view, started, pollStopped, passes,
                 userFreeRoam, transitions, limits, markerInstances, popupUpdateTimer,
                 refreshTimers, nowTick, now, currentZoomLevel>>

ClosePopup(h) ==
  /\ phase = "mounted"
  /\ h \in openPopups
  /\ openPopups' = openPopups \ {h}
  /\ popupWrites' = NoWrites
  /\ lastEvent' = [type |-> "popup", calls |-> <<>>, late |-> FALSE,
                  input |-> <<>>]
  /\ UNCHANGED <<svcVars, phase, propsName, map, markerByName, layer, freeRoamingMode,
                 autoEnforcedFreeRoaming, view, started, pollStopped, passes,
                 userFreeRoam, transitions, limits, markerInstances, popupUpdateTimer,
                 refreshTimers, nowTick, now, currentZoomLevel>>

\* a change of the zoom dropdown: onZoomChange -> setZoomLevel
SetZoomLevel(z) ==
  /\ phase = "mounted"
  /\ z # currentZoomLevel
  /\ currentZoomLevel' = z
  /\ popupWrites' = NoWrites
  /\ lastEvent' = [type |-> "zoom", calls |-> <<>>, late |-> FALSE, input |-> <<>>]
  /\ UNCHANGED <<svcVars, phase, propsName, map, markerByName, layer, openPopups,
                 freeRoamingMode, autoEnforcedFreeRoaming, view, started, pollStopped,
                 passes, userFreeRoam, transitions, limits, markerInstances, popupUpdateTimer,
                 refreshTimers, nowTick, now>>

NextRecon ==
  \/ \E n \in Names \cup {NoName} : Mount(n)
  \/ \E data \in Snapshots : StoreSnapshot(data)
  \/ \E m \in Records : StoreUpsert(m)
  \/ StoreClear
  \/ ToggleFreeRoam
  \/ \E h \in 1..(MaxMarkers + 1) : OpenPopup(h)
  \/ \E h \in 1..(MaxMarkers + 1) : ClosePopup(h)
  \/ Unmount

\* The reconciliation engine under the store changes of the adapters
SpecRecon == Init /\ [][NextRecon]_vars

NextView ==
  \/ \E n \in Names \cup {NoName} : Mount(n)
  \/ \E data \in Snapshots : StoreSnapshot(data)
  \/ \E m \in Records : StoreUpsert(m)
  \/ StoreClear
  \/ ToggleFreeRoam
  \/ \E z \in ZoomOptions : SetZoomLevel(z)
  \/ Unmount

\* The view fitting of the reconciliation pass under store changes, the free
\* roaming button and the zoom dropdown
SpecView == Init /\ [][NextView]_vars

Next ==
  \/ \E n \in Names \cup {NoName} : Mount(n)
  \/ \E n \in Names \cup {NoName} : NameChange(n)
  \/ ToggleMode
  \/ \E f \in Frequencies : SetFrequency(f)
  \/ Unmount
  \/ \E id \in DOMAIN fetches, status \in Statuses, data \in Bodies :
       FetchDone(id, status, data)
  \/ \E t \in DOMAIN intervals : Tick(t)
  \/ \E id \in DOMAIN sockets : WsOpen(id)
  \/ \E id \in DOMAIN sockets, m \in Messages : WsMessage(id, m)
  \/ \E id \in DOMAIN sockets : WsClose(id)
  \/ \E t \in DOMAIN timeouts : ReconnectFire(t)

---------------------------------------------------------------------------
\* The scheduler model: the clock, the refresh timer and the passes that
\* rebuild markerInstances from records stamped in milliseconds.

\* the residues of the clock within its minute at which the model looks at it
Residues == {0, 1, 59499, 59500, 59501, 59999}
\* the clock is looked at in the minutes 0..MaxMinutes after Epoch
MaxMinutes == 1
ProbeTimes == {Epoch + k * Minute + r : k \in 0..MaxMinutes, r \in Residues}
\* timestamps: five minutes old, young until a minute after Epoch, not a date
Stamps == {Epoch - 5 * Minute, Epoch + 1, InvalidTime}
StampedRecords == {Rec("a", 1, ts) : ts \in Stamps} \cup {Rec("b", 1, Epoch - 5 * Minute)}

InitDelay == InitState /\ limits = FullLimits /\ now \in ProbeTimes /\ nowTick = now

\* a response or a message stores records, the markers watcher runs the pass
StoreStamped(data) ==
  /\ \A i, j \in 1..Len(data) : data[i].name = data[j].name => i = j
  /\ StoreChanged(data, "storeSnapshot", <<>>)

\* time passes without the refresh timer coming due
Elapse(t) ==
  /\ phase = "mounted"
  /\ t > now
  /\ \A i \in 1..Len(refreshTimers) : t < refreshTimers[i].due
  /\ now' = t
  /\ lastEvent' = [type |-> "elapse", calls |-> <<>>, late |-> FALSE, input |-> <<>>]
  /\ UNCHANGED <<svcVars, cmpVars, started, pollStopped, passes, userFreeRoam,
                 transitions, limits, markerInstances, popupUpdateTimer, refreshTimers,
                 nowTick, popupWrites>>

\* the refresh timer fires at time t, not before it is due:
\* refreshRelativeTimesAndPopups(), then scheduleAdaptiveTick()
RefreshFire(t) ==
  /\ t >= now
  /\ \E i \in 1..Len(refreshTimers) :
       /\ t >= refreshTimers[i].due
       /\ LET a == armRefresh(RemoveAt(refreshTimers, i), popupUpdateTimer, t,
                              markerInstances)
          IN popupUpdateTimer' = a.handle /\ refreshTimers' = a.timers
  /\ now' = t
  /\ nowTick' = t
  /\ popupWrites' = [upsert |-> {},
                     refresh |-> refreshRelativeTimesAndPopups(markerInstances)]
  /\ lastEvent' = [type |-> "refresh", calls |-> <<>>, late |-> FALSE, input |-> <<>>]
  /\ UNCHANGED <<svcVars, cmpVars, started, pollStopped, passes, userFreeRoam,
                 transitions, limits, markerInstances>>

NextDelay ==
  \/ \E n \in Names \cup {NoName} : Mount(n)
  \/ \E data \in SeqsUpTo(StampedRecords, MaxMarkers) : StoreStamped(data)
  \/ \E t \in ProbeTimes : Elapse(t)
  \/ \E t \in ProbeTimes : RefreshFire(t)
  \/ Unmount

\* The refresh scheduler under the passage of time
SpecDelay == InitDelay /\ [][NextDelay]_vars

NextPopup ==
  \/ \E n \in Names \cup {NoName} : Mount(n)
  \/ \E data \in SeqsUpTo(StampedRecords, MaxMarkers) : StoreStamped(data)
  \/ \E h \in 1..(MaxMarkers + 1) : OpenPopup(h)
  \/ \E h \in 1..(MaxMarkers + 1) : ClosePopup(h)
  \/ \E t \in ProbeTimes : RefreshFire(t)
  \/ Unmount

\* The passes and the firings of the refresh timer while the user opens and
\* closes popups
SpecPopup == Init /\ [][NextPopup]_vars

\* markers.value = data in the continuation of a request that was in flight when
\* the component was unmounted: the store is module state and outlives the component
StoreLate(data) ==
  /\ phase = "unmounted"
  /\ Len(data) <= MaxMarkers
  /\ StoreWrite(data, "storeLate", <<>>)

\* a new instance of the component is set up and mounted: its own state starts
\* afresh, the module state of the service is what the last instance left
Remount(n) ==
  /\ phase = "unmounted"
  /\ phase' = "mounted"
  /\ propsName' = n
  /\ map' = TRUE
  /\ Commit(watchName(S, n), "name", FALSE)
  /\ markerByName' = <<>>
  /\ layer' = {}
  /\ openPopups' = {}
  /\ autoEnforcedFreeRoaming' = FALSE
  /\ markerInstances' = {}
  /\ nowTick' = now
  /\ popupWrites' = NoWrites
  /\ passes' = <<>>
  /\ LET a == armRefresh(refreshTimers, NoTimer, now, {})
     IN popupUpdateTimer' = a.handle /\ refreshTimers' = a.timers
  /\ view' = <<"setView", {DefaultCenter}, CountryFar>>
  /\ UNCHANGED <<freeRoamingMode, currentZoomLevel, userFreeRoam, now>>

NextMount ==
  \/ \E n \in Names \cup {NoName} : Mount(n)
  \/ \E data \in Snapshots : StoreSnapshot(data)
  \/ \E m \in Records : StoreUpsert(m)
  \/ StoreClear
  \/ Unmount
  \/ \E data \in Snapshots : StoreLate(data)
  \/ \E n \in Names \cup {NoName} : Remount(n)

\* The reconciliation engine across the instances of the component
SpecMount == Init /\ [][NextMount]_vars

\* The service and the controller
Spec == Init /\ [][Next]_vars

\* The controller over longer runs of transitions
SpecCtl == InitCtl /\ [][Next]_vars

\* The service and the controller under any well-typed JSON on the wire
SpecWire == InitWire /\ [][Next]_vars

\* the controller and the poll adapter while the push feed delivers nothing
NextFreq ==
  \/ \E n \in Names \cup {NoName} : Mount(n)
  \/ \E n \in Names \cup {NoName} : NameChange(n)
  \/ ToggleMode
  \/ \E f \in Frequencies : SetFrequency(f)
  \/ Unmount
  \/ \E id \in DOMAIN fetches, status \in Statuses, data \in Bodies :
       FetchDone(id, status, data)
  \/ \E t \in DOMAIN intervals : Tick(t)
  \/ \E id \in DOMAIN sockets : WsOpen(id)
  \/ \E id \in DOMAIN sockets : WsClose(id)

\* The poll adapter with overlapping starts over longer runs of transitions
SpecFreq == InitFreq /\ [][NextFreq]_vars

\* The poll adapter with the order of its requests recorded
SpecOrder == InitOrder /\ [][Next]_vars

\* a pending setTimeout callback is run by the event loop
TimersFire == \A t \in 1..MaxTransitions : WF_vars(ReconnectFire(t))

\* The service and the controller, every pending reconnect timer firing in the end
SpecLive == InitLive /\ [][Next]_vars /\ TimersFire

---------------------------------------------------------------------------
\* The claims

PassEvents == {"storeSnapshot", "storeUpsert", "storeClear"}
AfterPass == map /\ lastEvent.type \in PassEvents

\* C1: whenever the map exists, after every reconciliation pass the names of
\* markerByName are the names of the store's markers, every handle of the layer
\* is the handle of one name (no orphan) and no two names share a handle.
C1_RenderedMatchesStore ==
  AfterPass =>
    /\ DOMAIN markerByName = MarkerNames(markers)
    /\ layer = Handles(markerByName)
    /\ \A n1, n2 \in DOMAIN markerByName :
         markerByName[n1].h = markerByName[n2].h => n1 = n2

\* a pass has removed the first handle and kept the second, the store holding
\* two records of the one name left
C1_Witness ==
  /\ AfterPass
  /\ layer = {2}
  /\ DOMAIN markerByName = {"b"}
  /\ Len(markers) = 2

\* C2: in every state at most one poll interval timer is armed, and an armed
\* timer is the one fetchInterval refers to.
C2_AtMostOneTimer ==
  /\ Cardinality(DOMAIN intervals) <= 1
  /\ DOMAIN intervals \subseteq {fetchInterval}

\* C3: the close event of a socket closed on purpose schedules no reconnect
\* timer, and after a handler that called stopLive no reconnect timer is pending.
C3_NoReconnectAfterIntendedClose ==
  [][/\ lastEvent'.type = "wsCloseIntended" => DOMAIN timeouts' \subseteq DOMAIN timeouts
     /\ (\E i \in 1..Len(lastEvent'.calls) : lastEvent'.calls[i][1] = "stopLive")
          => DOMAIN timeouts' = {}]_vars

PollArmedOrArming ==
  \/ DOMAIN intervals # {}
  \/ \E id \in DOMAIN fetches : fetches[id].arm
PushActive == \E id \in DOMAIN sockets : sockets[id].state \in {"connecting", "open"}

\* C4: never is a poll timer armed, or a poll start about to arm one, while a
\* push socket is connecting or open.
C4_OneSourceAtATime == ~(PollArmedOrArming /\ PushActive)

\* C5: while the component is mounted, the adapter last started is the one of
\* the current (filter, mode): the poll adapter iff the mode is Poll, for the
\* name of the route filter (none for All).
C5_StartedMatchesState ==
  phase = "mounted" => started = <<updateMode, propsName>>

ControllerOps == StartOps \cup {"stopUpdates"}
IsControllerCall(c) == c[1] \in ControllerOps
ControllerCalls(calls) == SelectSeq(calls, IsControllerCall)
StartFor(mode, n) ==
  <<IF mode = Live
      THEN (IF n # NoName THEN "startLiveByName" ELSE "startLive")
      ELSE (IF n # NoName THEN "startFetchingByName" ELSE "startFetching"),
    n>>

\* C6: the handler of a change of the name prop, the activation at mount
\* included, calls stopUpdates once and then one start operation once: the
\* named variant with the new name or the all-entities variant, of the kind
\* of updateMode, which is Live at mount.
C6_NameChangeStopsThenStarts ==
  lastEvent.type = "name" =>
    /\ ControllerCalls(lastEvent.calls)
         = << <<"stopUpdates", NoName>>, StartFor(updateMode, propsName) >>
    /\ transitions = 1 => updateMode = Live

\* the name changed to "b" in Poll mode, after the mount
C6_Witness ==
  /\ lastEvent.type = "name"
  /\ transitions > 1
  /\ propsName = "b"
  /\ updateMode = Poll
  /\ \E id \in DOMAIN fetches : fetches[id].name = "b" /\ fetches[id].arm

\* C7: an unexpected close in Live mode schedules one reconnect timer, and a
\* reconnect timer that fires when the mode is no longer Live opens no connection.
C7_ReconnectOnlyInLive ==
  [][/\ (lastEvent'.type = "wsClose" /\ updateMode = Live /\ ~wsIntentionallyClosed)
          => Cardinality(DOMAIN timeouts') = Cardinality(DOMAIN timeouts) + 1
     /\ (lastEvent'.type = "reconnect" /\ updateMode # Live)
          => DOMAIN sockets' \subseteq DOMAIN sockets]_vars

NewFetches == {fetches'[id] : id \in DOMAIN fetches' \ DOMAIN fetches}
CallsOp(calls, op) == \E i \in 1..Len(calls) : calls[i][1] = op

\* C8: startFetching issues one fetch at once, every tick of its timer issues
\* one fetch, and after stopFetching no tick issues a fetch until the next start.
C8_NoFetchAfterStop ==
  [][/\ CallsOp(lastEvent'.calls, "startFetching")
          => Cardinality(NewFetches) = 1
     /\ (lastEvent'.type = "tick" /\ \E f \in NewFetches : f.kind = "all")
          => /\ Cardinality(NewFetches) = 1
             /\ ~pollStopped]_vars

\* C9: the response of a request dispatched before a stopUpdates, arriving
\* after the next adapter was started, changes neither markers nor error,
\* isLoading or currentName.
C9_LateResponseHarmless ==
  [][(lastEvent'.type = "fetchDone" /\ lastEvent'.late /\ phase = "mounted")
       => /\ markers' = markers
          /\ error' = error
          /\ isLoading' = isLoading
          /\ currentName' = currentName]_vars

\* C10: after a pass over an empty marker set free roaming is on; after the
\* pass over a non-empty set that follows a pass over an empty set, free
\* roaming is off again when off is what the user had chosen.
C10_EmptySetRule ==
  /\ (AfterPass /\ Len(markers) = 0) => freeRoamingMode
  /\ (AfterPass /\ passes = <<"empty", "nonempty">> /\ ~userFreeRoam)
       => ~freeRoamingMode

\* markers reappeared after the empty set had forced free roaming on
C10_Witness ==
  /\ AfterPass
  /\ passes = <<"empty", "nonempty">>
  /\ ~userFreeRoam
  /\ ~freeRoamingMode
  /\ ~autoEnforcedFreeRoaming
  /\ Len(markers) = 2

\* C11: a reconciliation pass never leaves free roaming off when on is what the
\* user chose last, and a pass turns free roaming off only when the value was
\* forced by an empty set and the user has not chosen on since.
C11_UserChoiceKept ==
  [][lastEvent'.type \in PassEvents =>
       /\ userFreeRoam' => freeRoamingMode'
       /\ (freeRoamingMode /\ ~freeRoamingMode')
            => (autoEnforcedFreeRoaming /\ ~userFreeRoam /\ Len(markers') # 0)]_vars

\* the user had free roaming on, the set became empty and markers reappeared
C11_Witness ==
  /\ AfterPass
  /\ passes = <<"empty", "nonempty">>
  /\ userFreeRoam
  /\ freeRoamingMode
  /\ ~autoEnforcedFreeRoaming
  /\ Len(markers) # 0

\* C12: a pass keeps the handle of every name that is rendered before it and in
\* the store after it: the handle stays on the layer, and its popup, when open
\* before the pass, is open after it.
C12_PopupPreserved ==
  [][lastEvent'.type \in PassEvents =>
       \A n \in DOMAIN markerByName \cap MarkerNames(markers') :
         /\ n \in DOMAIN markerByName'
         /\ markerByName'[n].h = markerByName[n].h
         /\ markerByName'[n].h \in layer'
         /\ markerByName[n].h \in openPopups => markerByName[n].h \in openPopups']_vars

\* a live record moved a marker whose popup is open, another marker beside it
C12_Witness ==
  /\ lastEvent.type = "storeUpsert"
  /\ Len(markers) = 2
  /\ LET m == lastEvent.input[1]
     IN /\ m.name \in DOMAIN markerByName
        /\ markerByName[m.name].h \in openPopups
        /\ markerByName[m.name].pos = m.pos
        /\ m.pos = MaxPos

\* C13: a second pass over the snapshot a pass has just reconciled creates no
\* handle and removes none: markerByName, the layer and the open popups are
\* what the first pass left.
C13_Idempotent ==
  AfterPass =>
    LET c == updateMapMarkers(Cmp)
    IN /\ c.markerByName = markerByName
       /\ c.layer = layer
       /\ c.openPopups = openPopups
       /\ c.freeRoamingMode = freeRoamingMode

\* a pass over two names has run twice in a row
C13_Witness ==
  /\ AfterPass
  /\ passes = <<"nonempty", "nonempty">>
  /\ Cardinality(layer) = 2
  /\ Cardinality(DOMAIN markerByName) = 2

FailedStatuses == Statuses \ {200}
HttpErrorStatuses == FailedStatuses \ {NoResponse}

\* C14: a fetch that fails sets error and clears isLoading; the failed
\* all-markers fetch leaves markers as they were, the failed named lookup
\* leaves them empty.
C14_FailureAsymmetry ==
  [][(lastEvent'.type = "fetchDone" /\ lastEvent'.input[2] \in FailedStatuses)
       => /\ error' # NoError
          /\ ~isLoading'
          /\ lastEvent'.input[1] = "all" => markers' = markers
          /\ lastEvent'.input[1] = "byName" => markers' = <<>>]_vars

\* an all-markers fetch failed with status 500 and the two markers stored
\* before it are still there
C14_Witness ==
  /\ lastEvent.type = "fetchDone"
  /\ lastEvent.input = <<"all", 500, NoName>>
  /\ error = ApiError(500)
  /\ ~isLoading
  /\ Len(markers) = 2

\* C15: status 404 of the named lookup of X gives the error 'No user named
\* "X" known...' and an empty marker list; every other non-2xx status of a named
\* lookup and every non-2xx status of the all-markers fetch gives 'API request
\* failed with status <status>'.
C15_ErrorKinds ==
  [][(lastEvent'.type = "fetchDone" /\ lastEvent'.input[2] \in HttpErrorStatuses)
       => LET kind == lastEvent'.input[1]
              status == lastEvent'.input[2]
              name == lastEvent'.input[3]
          IN IF kind = "byName" /\ status = 404
               THEN error' = NoUserError(name) /\ markers' = <<>>
               ELSE error' = ApiError(status)]_vars

\* the lookup of "b" was answered with status 404
C15_Witness ==
  /\ lastEvent.type = "fetchDone"
  /\ lastEvent.input = <<"byName", 404, "b">>
  /\ error = NoUserError("b")
  /\ markers = <<>>
  /\ currentName = "b"

\* C16: a live message m replaces the marker set by <<m>> when currentName is
\* set; otherwise it replaces in place the record of m.name when there is one
\* and appends m when there is none, every other record staying as it is.
C16_LiveMergeRule ==
  [][lastEvent'.type = "wsMessage" =>
       LET m == lastEvent'.input[1]
       IN IF currentName # NoName
            THEN markers' = <<m>>
            ELSE IF m.name \in MarkerNames(markers)
                   THEN /\ Len(markers') = Len(markers)
                        /\ \E i \in 1..Len(markers) :
                             /\ markers[i].name = m.name
                             /\ markers'[i] = m
                             /\ \A j \in 1..Len(markers) \ {i} : markers'[j] = markers[j]
                   ELSE markers' = Append(markers, m)]_vars

\* on the All filter a message replaced the first of two records in place
C16_Witness ==
  /\ lastEvent.type = "wsMessage"
  /\ currentName = NoName
  /\ Len(markers) = 2
  /\ markers[1] = lastEvent.input[1]
  /\ markers[1].pos = MaxPos
  /\ markers[2].name # markers[1].name

\* C17: in every state the names of the records of markers are pairwise distinct.
C17_NamesUnique ==
  \A i, j \in 1..Len(markers) : markers[i].name = markers[j].name => i = j

\* C18: a record whose coordinates are missing or not numbers never enters the
\* marker set of the store.
C18_MalformedDropped ==
  \A i \in 1..Len(markers) : markers[i].pos # NoPos

AnyYoung == \E it \in markerInstances :
              it.timestamp # InvalidTime /\ now - it.timestamp < Minute
ToNextMinute == Minute - (now % Minute)

\* C19: the delay the scheduler arms, at mount and at every firing of the
\* refresh timer, is 1000 when a rendered marker is younger
\* than 60000 ms; otherwise it is the larger of 500 and the time to the next
\* minute boundary, which lies in 500..60000.
C19_DelayRule ==
  (lastEvent.type \in {"refresh", "name"} /\ popupUpdateTimer # NoTimer) =>
    LET delay == popupUpdateTimer.delay
    IN /\ popupUpdateTimer.due = now + delay
       /\ AnyYoung => delay = 1000
       /\ ~AnyYoung => /\ delay >= 500
                       /\ delay >= ToNextMinute
                       /\ delay = 500 \/ delay = ToNextMinute
                       /\ delay \in 500..60000

\* the timer fired less than 500 ms before the minute boundary with one old
\* marker rendered, and is armed again for 500 ms
C19_Witness ==
  /\ lastEvent.type = "refresh"
  /\ Cardinality(markerInstances) = 1
  /\ ~AnyYoung
  /\ ToNextMinute < 500
  /\ popupUpdateTimer.delay = 500

\* the service state of s, without the log of the handler
StateOf(s) == [s EXCEPT !.calls = <<>>, !.input = <<>>]
NothingRunning ==
  /\ DOMAIN intervals = {}
  /\ DOMAIN sockets = {}
  /\ DOMAIN timeouts = {}

\* C20: in a state with no poll timer armed, no socket and no reconnect timer
\* pending, stopFetching and stopUpdates change nothing; in every state a
\* second call right after the first changes nothing.
C20_StopIdempotent ==
  /\ NothingRunning => /\ StateOf(stopFetching(S)) = StateOf(S)
                       /\ StateOf(stopUpdates(S)) = StateOf(S)
  /\ StateOf(stopFetching(stopFetching(S))) = StateOf(stopFetching(S))
  /\ StateOf(stopUpdates(stopUpdates(S))) = StateOf(stopUpdates(S))

\* onUnmounted has called stopUpdates while nothing was running but a request
\* in flight: the socket of the mount had closed and the poll start was
\* awaiting its initial fetch
C20_Witness ==
  /\ lastEvent.type = "unmount"
  /\ NothingRunning
  /\ DOMAIN fetches # {}
  /\ \A id \in DOMAIN fetches : fetches[id].arm

\* the request whose response the step delivers
DoneFetch == fetches[CHOOSE id \in DOMAIN fetches : id \notin DOMAIN fetches']

\* C21: a failed response (rejected fetch, non-2xx, 404 of a named lookup) sets
\* error and disarms no poll timer; when it answers the initial fetch of a start
\* operation the timer is armed for the filter of the start and fetchInterval
\* refers to it; a tick that follows a failure dispatches one fetch for the
\* filter of its timer.
C21_FailureKeepsPolling ==
  [][/\ (lastEvent'.type = "fetchDone" /\ lastEvent'.input[2] \in FailedStatuses)
          => /\ error' # NoError
             /\ \A t \in DOMAIN intervals :
                  t \in DOMAIN intervals' /\ intervals'[t] = intervals[t]
             /\ DoneFetch.arm
                  => /\ fetchInterval' \in DOMAIN intervals' \ DOMAIN intervals
                     /\ intervals'[fetchInterval'].kind = DoneFetch.kind
                     /\ intervals'[fetchInterval'].name = DoneFetch.name
             /\ ~DoneFetch.arm => /\ intervals' = intervals
                                  /\ fetchInterval' = fetchInterval
     /\ (lastEvent'.type = "tick" /\ error # NoError)
          => /\ Cardinality(NewFetches) = 1
             /\ \A f \in NewFetches : \E t \in DOMAIN intervals :
                  f.kind = intervals[t].kind /\ f.name = intervals[t].name
             /\ intervals' = intervals]_vars

\* the lookup of "a" was answered with status 404 and the poll timer of "a" is
\* armed, no other request in flight
C21_Witness ==
  /\ lastEvent.type = "fetchDone"
  /\ lastEvent.input = <<"byName", 404, "a">>
  /\ error = NoUserError("a")
  /\ fetchInterval \in DOMAIN intervals
  /\ intervals[fetchInterval].name = "a"
  /\ ~pollStopped
  /\ DOMAIN fetches = {}

\* the live adapter is the one running: mounted, in Live mode
LiveRunning == phase = "mounted" /\ updateMode = Live
\* the socket of the feed the adapter was started for has closed unexpectedly
UnexpectedClose(n) ==
  IF lastEvent.type = "wsClose"
    THEN lastEvent.input = <<"feed", n>> /\ LiveRunning /\ started = <<Live, n>>
    ELSE FALSE
\* a reconnect timer has fired and opened a connection to the feed of n
Reattempt(n) == IF lastEvent.type = "reconnect" THEN lastEvent.input = <<"feed", n>> ELSE FALSE
LiveStopped == ~LiveRunning \/ CallsOp(lastEvent.calls, "stopLive")

\* C22: while the mode is Live, every unexpected close of the socket of the
\* adapter's feed is followed by a new connection attempt to that feed, unless
\* stopLive is called or the mode changes first.
C22_KeepsReconnecting ==
  \A n \in Names \cup {NoName} :
    [](UnexpectedClose(n) => <>(Reattempt(n) \/ LiveStopped))

\* C23: after every pass over a non-empty marker set that ends with free
\* roaming off, the view is the one of the markers of the store: centered on
\* the single marker at currentZoomLevel when there is one record, fitted to
\* the bounds of all positions with padding 50 when there are more.
C23_ViewFitted ==
  (AfterPass /\ Len(markers) > 0 /\ ~freeRoamingMode) =>
    view = IF Len(markers) = 1
             THEN <<"setView", {LatLng(markers[1].pos)}, currentZoomLevel>>
             ELSE <<"fitBounds", BoundsOf(markers), FitPadding>>

\* the second non-empty pass in a row has centered the view on the one marker
\* left, at the zoom level the user chose
C23_Witness ==
  /\ AfterPass
  /\ passes = <<"nonempty", "nonempty">>
  /\ ~freeRoamingMode
  /\ Len(markers) = 1
  /\ currentZoomLevel = Far
  /\ view = <<"setView", {LatLng(MaxPos)}, Far>>

\* C24: a pass over an empty marker set that starts with free roaming off
\* leaves the view centered on the default location (62, 15) at the CountryFar
\* zoom level.
C24_EmptyCentersDefault ==
  [][(lastEvent'.type \in PassEvents /\ map /\ Len(markers') = 0 /\ ~freeRoamingMode)
       => view' = <<"setView", {DefaultCenter}, CountryFar>>]_vars

\* C30: a pass that ends with free roaming on leaves the view as it was, for
\* an empty and a non-empty marker set alike.
C30_FreeRoamKeepsView ==
  [][(lastEvent'.type \in PassEvents /\ freeRoamingMode') => view' = view]_vars

\* a pass over two markers has run with free roaming on by the user's choice
\* and the view is still centered on the single marker of an earlier pass
C30_Witness ==
  /\ AfterPass
  /\ freeRoamingMode
  /\ userFreeRoam
  /\ Len(markers) = 2
  /\ markers[1].name # markers[2].name
  /\ view[1] = "setView"
  /\ view # <<"setView", {DefaultCenter}, CountryFar>>

\* the response of status 200 the step delivers: its body, and what is stored
SuccessfulFetch == lastEvent'.type = "fetchDone" /\ lastEvent'.input[2] = 200
StoredBody ==
  LET kind == lastEvent'.input[1]
      data == lastEvent'.input[4]
  IN IF kind = "all" \/ data.isArray THEN data.items ELSE <<ObjectOf(data)>>

\* C25: after a fetch that succeeds, markers is the returned array (the
\* one-element array of the returned object for a named lookup answered with an
\* object), error is null and isLoading is false, and after a named lookup
\* currentName is the name looked up.
C25_SuccessStoresResponse ==
  [][SuccessfulFetch =>
       /\ markers' = StoredBody
       /\ ~isLoading'
       /\ error' = NoError
       /\ lastEvent'.input[1] = "byName" => currentName' = lastEvent'.input[3]]_vars

\* C26: after a pass that leaves a rendered marker younger than 60000 ms, a
\* refresh timer is pending that is due at most 1000 ms after the pass.
C26_RearmedAfterPass ==
  (AfterPass /\ AnyYoung) =>
    \E i \in 1..Len(refreshTimers) : refreshTimers[i].due <= now + FastDelay

\* C27: before the mount no refresh timer is pending; while the component is
\* mounted exactly one is, the one popupUpdateTimer refers to; after the unmount
\* none is and popupUpdateTimer is null; right after a firing nowTick is the
\* time of the firing and the one pending timer was armed at that time.
C27_SingleTimer ==
  /\ phase = "init" => refreshTimers = <<>> /\ popupUpdateTimer = NoTimer
  /\ phase = "mounted" => /\ popupUpdateTimer # NoTimer
                          /\ refreshTimers = <<popupUpdateTimer>>
  /\ phase = "unmounted" => refreshTimers = <<>> /\ popupUpdateTimer = NoTimer
  /\ lastEvent.type = "refresh"
       => /\ nowTick = now
          /\ popupUpdateTimer.due = now + popupUpdateTimer.delay
          /\ popupUpdateTimer.delay = computeNextDelayMs(now, markerInstances)

\* the timer has fired after a pass, with a young marker rendered, and one timer
\* is pending for a second later
C27_Witness ==
  /\ lastEvent.type = "refresh"
  /\ phase = "mounted"
  /\ AnyYoung
  /\ passes # <<>>
  /\ refreshTimers = <<[delay |-> FastDelay, due |-> now + FastDelay]>>

\* the fetch a restart of polling dispatches: the initial fetch of a start for
\* the filter cur, the period left to updateFrequency
RestartFetch(cur) ==
  [kind |-> IF cur = NoName THEN "all" ELSE "byName", name |-> cur, arm |-> TRUE,
   intervalMs |-> 0, late |-> FALSE, order |-> "newest"]

\* C29: setUpdateFrequency(f) sets updateFrequency to f; with a poll timer
\* armed it clears the timer and dispatches one fetch, the initial fetch of a
\* start for the filter of currentName whose timer takes the period f; with no
\* poll timer armed it dispatches no fetch and arms no timer.
C29_FrequencyRestarts ==
  [][\A f \in Frequencies :
       (lastEvent'.type = "frequency" /\ lastEvent'.input = <<"frequency", f>>)
         => /\ updateFrequency' = f
            /\ IF DOMAIN intervals # {}
                 THEN /\ DOMAIN intervals' = {}
                      /\ NewFetches = {RestartFetch(currentName)}
                 ELSE fetches' = fetches /\ intervals' = intervals]_vars

\* nothing of the adapters is left: no poll timer armed, no reconnect timer
\* pending, no push socket connecting or open
Quiet ==
  /\ DOMAIN intervals = {}
  /\ DOMAIN timeouts = {}
  /\ ~PushActive

\* C28: after the stopUpdates of the unmount, which no start follows, the
\* service comes to rest: from some moment on no poll timer is armed, no
\* reconnect timer is pending and no push socket is open, so that only responses
\* of requests already dispatched can still write markers.
C28_StoppingComplete == [](phase = "unmounted" => <>[]Quiet)

\* a request is awaiting its response or a socket has not opened yet
WorkInFlight ==
  \/ DOMAIN fetches # {}
  \/ \E id \in DOMAIN sockets : sockets[id].state = "connecting"

\* C31: isLoading is true while a fetch is in flight or a socket is connecting,
\* and false in every state where no fetch is in flight and no socket is
\* connecting.
C31_LoadingReflectsWork == isLoading <=> WorkInFlight

PassOrFiring == PassEvents \cup {"refresh"}

C33_OnePushConnection ==
  \A id \in DOMAIN sockets :
    sockets[id].state \in {"connecting", "open"} => id = ws

\* the events of the adapters that write the store
AdapterWrites == {"wsMessage", "fetchDone"}

\* C34: while the route names x, a live message or a fetch response puts no
\* record of another name into markers: every record of another name that
\* markers holds after the event was there before it.
C34_SingleEntityView ==
  [][(phase = "mounted" /\ propsName # NoName /\ lastEvent'.type \in AdapterWrites)
       => \A i \in 1..Len(markers') :
            markers'[i].name # propsName
              => \E j \in 1..Len(markers) : markers[j] = markers'[i]]_vars

\* C35: once the name watcher has run, currentName is the name of the route:
\* x under ByName(x), null under All, in either mode.
C35_CurrentNameIsRoute == phase = "mounted" => currentName = propsName

\* C36: in every state at most one reconnect timer is pending, and a pending
\* timer is the one wsReconnectTimer refers to.
C36_OneReconnectTimer ==
  /\ Cardinality(DOMAIN timeouts) <= 1
  /\ DOMAIN timeouts \subseteq {wsReconnectTimer}

\* C37: when the initial fetch of a poll start completes after stopUpdates was
\* called, the start arms no interval timer.
C37_StopDuringStart ==
  [][(lastEvent'.type = "fetchDone" /\ DoneFetch.arm /\ DoneFetch.late)
       => intervals' = intervals /\ fetchInterval' = fetchInterval]_vars

\* C38: while autoEnforcedFreeRoaming is set free roaming is on, and after a
\* pass over a non-empty set the flag is not set.
C38_EnforcedFlag ==
  /\ autoEnforcedFreeRoaming => freeRoamingMode
  /\ (AfterPass /\ Len(markers) # 0) => ~autoEnforcedFreeRoaming

\* the set became empty after a pass over markers, the user having had free
\* roaming off: the pass turned it on and set the flag
C38_Witness ==
  /\ AfterPass
  /\ passes = <<"nonempty", "empty">>
  /\ ~userFreeRoam
  /\ autoEnforcedFreeRoaming
  /\ freeRoamingMode

\* C39: the response of a tick's request that a later request of the same
\* timer has overtaken, its response stored already, is not stored: markers
\* stays what the later response made it.
C39_RequestOrder ==
  [][(/\ lastEvent'.type = "fetchDone"
      /\ lastEvent'.input[2] = 200
      /\ DoneFetch.order = "overtaken"
      /\ ~DoneFetch.arm
      /\ ~DoneFetch.late)
       => markers' = markers]_vars

\* C40: once the map exists, the rendered names are the names of the store in
\* every state between two tasks, also right after a mount that found markers
\* in the store
C40_RenderedOnceMapExists ==
  (phase = "mounted" /\ map) => DOMAIN markerByName = MarkerNames(markers)

=============================================================================
